---- MODULE Spec2Model ----
(***************************************************************************)
(* ALightDetectionManager (LightDetectionManager.h / .cpp): a tick-driven  *)
(* actor that, once per update period, resolves a detection point below    *)
(* the player and recomputes IlluminanceTotal from the point lights and    *)
(* the spot lights it cataloged in BeginPlay.                              *)
(*                                                                         *)
(* Numbers.  Lengths are integers in hundredths of a world unit, so the    *)
(* literals 100, 98, 10 and 93.980003 of UpdateDetection are 10000, 9800,  *)
(* 1000 and 9398.  Time is counted in thirds of a second, so that          *)
(* 1 / UpdateFrequency is exact for the frequencies of the model.  Floats  *)
(* are modelled by exact arithmetic; the IEEE special values the code can  *)
(* produce (1/0 = +inf, 0/0 = NaN) are modelled by what comparisons with   *)
(* them yield.  IlluminanceTotal and Intensity are counted in units of     *)
(* 1.0f.                                                                   *)
(***************************************************************************)
EXTENDS Integers, Sequences, FiniteSets, TLC

VARIABLES
    worldActors,          \* the actors TActorIterator yields, in order
    worldPlayer,          \* TRUE iff GetPlayerCharacter(0) is an APlanet_NineMPCharacter
    phase,                \* "Constructed", "Playing" or "Crashed"
    Player,               \* "null" or "character"
    PointLights,          \* TArray<UPointLightComponent*>
    SpotLights,           \* TArray<USpotLightComponent*>
    MainDirectionalLight, \* UDirectionalLightComponent* (never assigned by this class)
    IlluminanceTotal,
    UpdateFrequency,
    UpdateTimer,
    ForgivenessBuffer,
    DeltaTime,            \* argument of the last Tick
    evaluations,          \* calls of UpdateDetection made by the last Tick
    evaluated,            \* TRUE once a call of UpdateDetection has returned
    PlayerPosition,       \* Player->GetActorLocation() of the last evaluation
    HitResult,            \* result of the floor trace of the last evaluation
    DetectionPoint,       \* the point handed to CheckPointLights/CheckSpotLights
    shadowBlocked,        \* per spot light: the trace light -> point was blocked
    visibilityBlocked,    \* the scene blocks the trace directional light -> player
    constantDelta,        \* 0: the host's frame time varies; > 0: every frame lasts this long
    counting,             \* TRUE iff the frames since BeginPlay are being counted
    intervalTicks,        \* frames since BeginPlay (while counting)
    intervalEvals         \* evaluations since BeginPlay (while counting)

vars == << worldActors, worldPlayer, phase, Player, PointLights, SpotLights,
           MainDirectionalLight, IlluminanceTotal, UpdateFrequency, UpdateTimer,
           ForgivenessBuffer, DeltaTime, evaluations, evaluated, PlayerPosition,
           HitResult, DetectionPoint, shadowBlocked, visibilityBlocked,
           constantDelta, counting, intervalTicks, intervalEvals >>

(***************************************************************************)
(* Bounds of the model.                                                    *)
(***************************************************************************)
MaxActors == 2
MaxTicks == 12

(***************************************************************************)
(* Literals of the source, in hundredths of a unit.                        *)
(***************************************************************************)
ProbeLength == 10000
StandingRange == 9800
Lift == 1000
FallDrop == 9398

\* Thirds of a second per second: 1 / UpdateFrequency is exact for 1, 3, -1.
TicksPerSecond == 1 + 2
\* The float +infinity that 1 / 0.0f yields.
Infinity == 1000000

(***************************************************************************)
(* FVector arithmetic.                                                     *)
(***************************************************************************)
UpVector == << 0, 0, 1 >>
DownVector == << 0, 0, -1 >>
VAdd(a, b) == << a[1] + b[1], a[2] + b[2], a[3] + b[3] >>
VSub(a, b) == << a[1] - b[1], a[2] - b[2], a[3] - b[3] >>
VScale(k, a) == << k * a[1], k * a[2], k * a[3] >>
DotProduct(a, b) == a[1] * b[1] + a[2] * b[2] + a[3] * b[3]
DistSquared(a, b) == DotProduct(VSub(a, b), VSub(a, b))

\* Products of two naturals below 2^30, as three digits in base 2^15, so that
\* the float comparisons of CheckSpotLights can be decided exactly.
Half == 2 ^ 15
Wide(a, b) ==
    LET a1 == a \div Half
        a0 == a % Half
        b1 == b \div Half
        b0 == b % Half
        lo == a0 * b0
        mid == a1 * b0 + a0 * b1 + (lo \div Half)
        hi == a1 * b1 + (mid \div Half)
    IN  << hi, mid % Half, lo % Half >>
WideLess(p, q) ==
    \/ p[1] < q[1]
    \/ p[1] = q[1] /\ p[2] < q[2]
    \/ p[1] = q[1] /\ p[2] = q[2] /\ p[3] < q[3]

\* cos^2 of an outer cone angle given in degrees, as << numerator, denominator >>.
CosSquared(deg) ==
    CASE deg = 0 -> << 1, 1 >>
      [] deg = 30 -> << 3, 4 >>
      [] deg = 45 -> << 1, 2 >>
      [] deg = 60 -> << 1, 4 >>
      [] deg = 90 -> << 0, 1 >>

(***************************************************************************)
(* The scenes of the model.                                                *)
(***************************************************************************)
Actor(tag, component, visible, intensity, pos, radius, dir, angle) ==
    [ tag |-> tag, component |-> component, visible |-> visible,
      Intensity |-> intensity, pos |-> pos, AttenuationRadius |-> radius,
      dir |-> dir, OuterConeAngle |-> angle ]

PointA == Actor("Point Light", "PointLight", TRUE, 10, << 0, 0, 300 >>, 300, << 0, 0, 0 >>, 0)
PointHidden == Actor("Point Light", "PointLight", FALSE, 10, << 0, 0, 300 >>, 300, << 0, 0, 0 >>, 0)
PointDark == Actor("Point Light", "PointLight", TRUE, 0, << 0, 0, 300 >>, 300, << 0, 0, 0 >>, 0)
SpotA == Actor("Spot Light", "SpotLight", TRUE, 10, << 0, 0, 600 >>, 1000, << 0, 0, -1 >>, 45)
SpotDark == Actor("Spot Light", "SpotLight", TRUE, 0, << 0, 0, 600 >>, 1000, << 0, 0, -1 >>, 45)
SpotHidden == Actor("Spot Light", "SpotLight", FALSE, 10, << 0, 0, 600 >>, 1000, << 0, 0, -1 >>, 45)
Untagged == Actor("Point Light", "None", TRUE, 10, << 0, 0, 300 >>, 300, << 0, 0, 0 >>, 0)

ActorPalette == { PointA, PointHidden, PointDark, SpotA, SpotDark, SpotHidden, Untagged }

Worlds == UNION { [1..n -> ActorPalette] : n \in 0..MaxActors }

NoDirectional == [ valid |-> FALSE, visible |-> FALSE, Intensity |-> 0 ]
Sun == [ valid |-> TRUE, visible |-> TRUE, Intensity |-> 3 ]
DirectionalHandles == { NoDirectional, Sun }

Frequencies == { -1, 0, 1, 3 }
PositiveFrequencies == { 1, 3 }
DeltaTimes == { 1, 2, 5 }
Buffers == { 0, 360000 }
InitialIlluminance == { 0, 1 }

SubjectPositions == { << 0, 0, 9398 >>, << 600, 0, 9398 >> }
NoHit == [ bBlockingHit |-> FALSE, Distance |-> 0 ]
FloorHit(d) == [ bBlockingHit |-> TRUE, Distance |-> d ]
FloorProbes == { NoHit, FloorHit(9798), FloorHit(9800) }
\* Values an uninitialised FVector can hold.
JunkPoints == { << 0, 0, 0 >>, << 7000, 0, 0 >>, << 0, 0, -7000 >> }
\* The values the declaration FVector DetectionPoint can show: it is read
\* uninitialised only after a floor hit at StandingRange or beyond.
Uninitialised(hit) ==
    IF hit.bBlockingHit /\ hit.Distance >= StandingRange THEN JunkPoints ELSE { << 0, 0, 0 >> }

(***************************************************************************)
(* UpdateDetection: the detection point.                                   *)
(***************************************************************************)
\* HitResult.Location of a trace from P straight down that hit after Distance.
HitLocation(P, hit) == VAdd(P, VScale(hit.Distance, DownVector))

\* Lines 75-95.  The inner if has no else: a floor hit at StandingRange or
\* beyond leaves the local FVector DetectionPoint as it was declared,
\* uninitialised; junk is the value it then holds.
ResolveDetectionPoint(P, hit, junk) ==
    IF hit.bBlockingHit
    THEN IF hit.Distance < StandingRange
         THEN VAdd(HitLocation(P, hit), VScale(Lift, UpVector))
         ELSE junk
    ELSE VAdd(P, VScale(FallDrop, DownVector))

(***************************************************************************)
(* CheckPointLights.                                                       *)
(***************************************************************************)
\* Line 120: the test that ends the loop.
PointLightStops(light) == ~light.visible \/ light.Intensity <= 0

\* A range test that also rejects the boundary distance.
PointOutOfRangeStrict(light, S) ==
    DistSquared(light.pos, S)
        >= light.AttenuationRadius * light.AttenuationRadius + ForgivenessBuffer

\* Lines 135-136: beyond the attenuation radius plus the buffer.
PointOutOfRange(light, S) ==
    DistSquared(light.pos, S)
        > light.AttenuationRadius * light.AttenuationRadius + ForgivenessBuffer

\* Line 144: IlluminanceTotal = 1.0f.
PointContribution(total) == 1

RECURSIVE PointLoop(_, _, _)
PointLoop(idx, total, S) ==
    IF idx > Len(PointLights) THEN total
    ELSE IF PointLightStops(PointLights[idx]) THEN total                  \* return
    ELSE IF PointOutOfRange(PointLights[idx], S)
         THEN PointLoop(idx + 1, total, S)                                \* continue
    ELSE PointLoop(idx + 1, PointContribution(total), S)

CheckPointLights(total, S) == PointLoop(1, total, S)

(***************************************************************************)
(* CheckSpotLights.                                                        *)
(***************************************************************************)
\* Lines 179-185.  With D = S - L and c = cos(OuterConeAngle):
\*   AngleBetween = acos(D.F / |D|), ConeHeight = R * c / cos(AngleBetween)
\*   = R * c * |D| / (D.F), and the light is passed over when
\*   |D|^2 > ConeHeight^2 + ForgivenessBuffer, that is when
\*   (|D|^2 - ForgivenessBuffer) * (D.F)^2 > R^2 * c^2 * |D|^2.
\* |D| = 0 makes AngleBetween NaN and D.F = 0 makes ConeHeight infinite or
\* NaN: the comparison is then false.
BeyondConeHeight(light, S) ==
    LET D == VSub(S, light.pos)
        dd == DotProduct(D, D)
        df == DotProduct(D, light.dir)
        c2 == CosSquared(light.OuterConeAngle)
        R2 == light.AttenuationRadius * light.AttenuationRadius
    IN  IF dd = 0 \/ df = 0 THEN FALSE
        ELSE IF dd <= ForgivenessBuffer THEN FALSE
        ELSE WideLess(Wide(R2 * c2[1], dd),
                      Wide((dd - ForgivenessBuffer) * c2[2], df * df))

\* A cone test that also rejects a point lying exactly on the outer cone.
OutsideConeStrict(light, S) ==
    LET D == VSub(S, light.pos)
        dd == DotProduct(D, D)
        df == DotProduct(light.dir, D)
        c2 == CosSquared(light.OuterConeAngle)
    IN  IF dd = 0 THEN light.OuterConeAngle < 90
        ELSE df < 0 \/ df * df * c2[2] <= c2[1] * dd

\* Lines 188-192: acos(F . GetSafeNormal(D)) in degrees exceeds OuterConeAngle
\* (angles up to 90 degrees).  GetSafeNormal of the zero vector is the zero
\* vector, which gives 90 degrees.
OutsideCone(light, S) ==
    LET D == VSub(S, light.pos)
        dd == DotProduct(D, D)
        df == DotProduct(light.dir, D)
        c2 == CosSquared(light.OuterConeAngle)
    IN  IF dd = 0 THEN light.OuterConeAngle < 90
        ELSE df < 0 \/ df * df * c2[2] < c2[1] * dd

\* An intensity test that lets an intensity of zero through.
SpotLightDarkNegative(light) == light.Intensity < 0

\* Line 197: the intensity test made once the trace found nothing.
SpotLightDark(light) == light.Intensity <= 0

\* A write at line 203 that clears the total instead of setting it.
SpotContributionClear(total) == 0

\* Line 203: IlluminanceTotal = 1.0f.
SpotContribution(total) == 1

RECURSIVE SpotLoop(_, _, _, _)
SpotLoop(idx, total, S, blocked) ==
    IF idx > Len(SpotLights) THEN total
    ELSE IF ~SpotLights[idx].visible THEN SpotLoop(idx + 1, total, S, blocked)
    ELSE IF BeyondConeHeight(SpotLights[idx], S) THEN SpotLoop(idx + 1, total, S, blocked)
    ELSE IF OutsideCone(SpotLights[idx], S) THEN SpotLoop(idx + 1, total, S, blocked)
    ELSE IF ~blocked[idx]
         THEN IF SpotLightDark(SpotLights[idx])
              THEN SpotLoop(idx + 1, total, S, blocked)
              ELSE SpotLoop(idx + 1, SpotContribution(total), S, blocked)
    ELSE SpotLoop(idx + 1, total, S, blocked)

CheckSpotLights(total, S, blocked) == SpotLoop(1, total, S, blocked)

(***************************************************************************)
(* CheckDirectionalLight (defined by the class, called from nowhere).      *)
(***************************************************************************)
CheckDirectionalLight(total, blocked) ==
    IF ~MainDirectionalLight.valid THEN total
    ELSE IF ~MainDirectionalLight.visible THEN total
    ELSE IF ~blocked THEN total + MainDirectionalLight.Intensity
    ELSE total

(***************************************************************************)
(* UpdateDetection, lines 73 and 97-101: from IlluminanceTotal = 0 the     *)
(* point lights, then the spot lights; the calls of CheckRectLights and    *)
(* CheckDirectionalLight are commented out.                                *)
(***************************************************************************)
\* The orchestrator with the call of CheckDirectionalLight restored.
WithDirectional(S, shadow, visibility) ==
    CheckDirectionalLight(CheckSpotLights(CheckPointLights(0, S), S, shadow), visibility)

RunEvaluators(S, shadow, visibility) ==
    CheckSpotLights(CheckPointLights(0, S), S, shadow)

(***************************************************************************)
(* The values IlluminanceTotal takes during one call of UpdateDetection,   *)
(* in the order of the writes: line 73, then one value for each execution  *)
(* of line 144, then one for each execution of line 203.                   *)
(***************************************************************************)
RECURSIVE PointWrites(_, _, _)
PointWrites(idx, total, S) ==
    IF idx > Len(PointLights) THEN << >>
    ELSE IF PointLightStops(PointLights[idx]) THEN << >>                  \* return
    ELSE IF PointOutOfRange(PointLights[idx], S)
         THEN PointWrites(idx + 1, total, S)                              \* continue
    ELSE << PointContribution(total) >>
             \o PointWrites(idx + 1, PointContribution(total), S)

RECURSIVE SpotWrites(_, _, _, _)
SpotWrites(idx, total, S, blocked) ==
    IF idx > Len(SpotLights) THEN << >>
    ELSE IF ~SpotLights[idx].visible THEN SpotWrites(idx + 1, total, S, blocked)
    ELSE IF BeyondConeHeight(SpotLights[idx], S) THEN SpotWrites(idx + 1, total, S, blocked)
    ELSE IF OutsideCone(SpotLights[idx], S) THEN SpotWrites(idx + 1, total, S, blocked)
    ELSE IF ~blocked[idx]
         THEN IF SpotLightDark(SpotLights[idx])
              THEN SpotWrites(idx + 1, total, S, blocked)
              ELSE << SpotContribution(total) >>
                       \o SpotWrites(idx + 1, SpotContribution(total), S, blocked)
    ELSE SpotWrites(idx + 1, total, S, blocked)

EvaluationWrites(S, blocked) ==
    << 0 >> \o PointWrites(1, 0, S) \o SpotWrites(1, CheckPointLights(0, S), S, blocked)

(***************************************************************************)
(* The update timer.                                                       *)
(***************************************************************************)
\* 1 / UpdateFrequency in float arithmetic: +inf for 0.
Period == IF UpdateFrequency = 0 THEN Infinity ELSE TicksPerSecond \div UpdateFrequency

\* UpdateTimer -= DeltaTime (inf - x = inf).
Decremented(timer, dt) == IF timer = Infinity THEN Infinity ELSE timer - dt

\* A timer that has to pass zero before it expires.
TimerExpiredStrict(timer) == timer < 0

\* Line 391.
TimerExpired(timer) == timer <= 0

\* A reset that keeps the overshoot of the timer.
ResetTimerCarry(timer) == timer + Period

\* Line 396.
ResetTimer(timer) == Period

(***************************************************************************)
(* Construction, BeginPlay, Tick.                                          *)
(***************************************************************************)
TypeOK ==
    /\ worldActors \in Worlds
    /\ worldPlayer \in BOOLEAN
    /\ phase \in { "Constructed", "Playing", "Crashed" }
    /\ Player \in { "null", "character" }
    /\ MainDirectionalLight \in DirectionalHandles
    /\ IlluminanceTotal \in Int
    /\ UpdateFrequency \in Frequencies
    /\ ForgivenessBuffer \in Buffers
    /\ evaluations \in 0..1
    /\ evaluated \in BOOLEAN
    /\ UpdateTimer \in Int
    /\ PlayerPosition \in SubjectPositions \cup { << 0, 0, 0 >> }
    /\ HitResult \in FloorProbes
    /\ HitResult.Distance <= ProbeLength
    /\ Len(shadowBlocked) \in { 0, Len(SpotLights) }
    /\ Len(PointLights) + Len(SpotLights) <= Len(worldActors)

\* The state after the constructor and the editor's property values: the
\* header gives UpdateFrequency a default and leaves IlluminanceTotal,
\* ForgivenessBuffer and MainDirectionalLight without one.
InitWith(worlds, frequencies, buffers, handles, deltas, count) ==
    /\ worldActors \in worlds
    /\ worldPlayer \in BOOLEAN
    /\ phase = "Constructed"
    /\ Player = "null"
    /\ PointLights = << >>
    /\ SpotLights = << >>
    /\ MainDirectionalLight \in handles
    /\ IlluminanceTotal \in InitialIlluminance
    /\ UpdateFrequency \in frequencies
    /\ UpdateTimer = 0
    /\ ForgivenessBuffer \in buffers
    /\ DeltaTime = 0
    /\ evaluations = 0
    /\ evaluated = FALSE
    /\ PlayerPosition = << 0, 0, 0 >>
    /\ HitResult = NoHit
    /\ DetectionPoint = << 0, 0, 0 >>
    /\ shadowBlocked = << >>
    /\ visibilityBlocked \in IF MainDirectionalLight.valid THEN BOOLEAN ELSE { FALSE }
    /\ constantDelta \in deltas
    /\ counting = count
    /\ intervalTicks = 0
    /\ intervalEvals = 0

\* Every scene of up to MaxActors actors, at UpdateFrequency 1 under a host
\* whose frames last 2/3 s: every second frame is an evaluation.
Init == InitWith(Worlds, { 1 }, Buffers, DirectionalHandles, { 2 }, FALSE)

\* Every update frequency under a host whose frame time varies, in a scene
\* of no light or one point light.
InitTimer ==
    InitWith({ << >>, << PointA >> }, Frequencies, { 0 }, { NoDirectional }, { 0 }, FALSE)

\* A scene without lights whose host ticks at a constant frame time, the
\* frames and the evaluations counted from BeginPlay.
InitCadence ==
    InitWith({ << >> }, PositiveFrequencies, { 0 }, { NoDirectional }, DeltaTimes, TRUE)

IsPointLight(a) == a.tag = "Point Light" /\ a.component = "PointLight"
IsSpotLight(a) == a.tag = "Spot Light" /\ a.component = "SpotLight"

\* Line 61.
InitialTimer == Period

BeginPlay ==
    /\ phase = "Constructed"
    /\ phase' = "Playing"
    /\ Player' = IF worldPlayer THEN "character" ELSE "null"
    /\ PointLights' = SelectSeq(worldActors, IsPointLight)
    /\ SpotLights' = SelectSeq(worldActors, IsSpotLight)
    /\ UpdateTimer' = InitialTimer
    /\ UNCHANGED << worldActors, worldPlayer, MainDirectionalLight, IlluminanceTotal,
                    UpdateFrequency, ForgivenessBuffer, DeltaTime, evaluations,
                    evaluated, PlayerPosition, HitResult, DetectionPoint,
                    shadowBlocked, visibilityBlocked, constantDelta, counting,
                    intervalTicks, intervalEvals >>

\* UpdateDetection with a null Player: line 73 has cleared IlluminanceTotal
\* when line 75 dereferences the null pointer.
Fault ==
    /\ IlluminanceTotal' = 0
    /\ phase' = "Crashed"
    /\ UNCHANGED << evaluated, PlayerPosition, HitResult, DetectionPoint,
                    shadowBlocked >>

\* UpdateDetection with the inputs the world gives it.
UpdateDetection(P, hit, junk, shadow) ==
    LET S == ResolveDetectionPoint(P, hit, junk)
    IN  /\ IlluminanceTotal' = RunEvaluators(S, shadow, visibilityBlocked)
        /\ PlayerPosition' = P
        /\ HitResult' = hit
        /\ DetectionPoint' = S
        /\ shadowBlocked' = shadow
        /\ evaluated' = TRUE
        /\ phase' = phase

Tick(dt) ==
    /\ phase = "Playing"
    /\ constantDelta # 0 => dt = constantDelta
    /\ counting => intervalTicks < MaxTicks
    /\ DeltaTime' = dt
    /\ intervalTicks' = IF counting THEN intervalTicks + 1 ELSE intervalTicks
    /\ LET timer == Decremented(UpdateTimer, dt)
       IN  IF TimerExpired(timer)
           THEN /\ evaluations' = 1
                /\ intervalEvals' = IF counting THEN intervalEvals + 1 ELSE intervalEvals
                /\ IF Player = "null"
                   THEN Fault /\ UpdateTimer' = timer
                   ELSE /\ \E P \in SubjectPositions, hit \in FloorProbes,
                              shadow \in [1..Len(SpotLights) -> BOOLEAN] :
                              \E junk \in Uninitialised(hit) :
                                  UpdateDetection(P, hit, junk, shadow)
                        /\ UpdateTimer' = ResetTimer(timer)
           ELSE /\ evaluations' = 0
                /\ UpdateTimer' = timer
                /\ UNCHANGED << IlluminanceTotal, phase, evaluated, PlayerPosition,
                                HitResult, DetectionPoint, shadowBlocked,
                                intervalEvals >>
    /\ UNCHANGED << worldActors, worldPlayer, Player, PointLights, SpotLights,
                    MainDirectionalLight, UpdateFrequency, ForgivenessBuffer,
                    visibilityBlocked, constantDelta, counting >>

Next == BeginPlay \/ \E dt \in DeltaTimes : Tick(dt)

Spec == Init /\ [][Next]_vars

SpecTimer == InitTimer /\ [][Next]_vars

SpecCadence == InitCadence /\ [][Next]_vars

(***************************************************************************)
(* Properties.                                                             *)
(***************************************************************************)
\* The inclusion tests of one point light and of one spot light, as the
\* bodies of the two loops make them.
PointIncluded(light, S) ==
    light.visible /\ light.Intensity > 0 /\ ~PointOutOfRange(light, S)

SpotIncluded(light, S, isBlocked) ==
    /\ light.visible
    /\ light.Intensity > 0
    /\ ~BeyondConeHeight(light, S)
    /\ ~OutsideCone(light, S)
    /\ ~isBlocked

IncludedLights ==
    Cardinality({ i \in 1..Len(PointLights) : PointIncluded(PointLights[i], DetectionPoint) })
    + Cardinality({ i \in 1..Len(SpotLights) :
                      SpotIncluded(SpotLights[i], DetectionPoint, shadowBlocked[i]) })

AllLightsOff ==
    /\ \A i \in 1..Len(PointLights) :
          ~PointLights[i].visible \/ PointLights[i].Intensity <= 0
    /\ \A i \in 1..Len(SpotLights) :
          ~SpotLights[i].visible \/ SpotLights[i].Intensity <= 0

\* floor(T * UpdateFrequency) for the interval T covered by the counted frames.
ExpectedEvaluations ==
    (intervalTicks * constantDelta * UpdateFrequency) \div TicksPerSecond

\* Frames the timer needs to run from Period down to zero or below.
FramesPerEvaluation == (Period + constantDelta - 1) \div constantDelta

C3_ContributionsSummed ==
    (evaluated /\ \A i \in 1..Len(PointLights) : ~PointLightStops(PointLights[i]))
    => IlluminanceTotal = IncludedLights

\* C4: after an evaluation every point light that is visible, has a positive
\* intensity and is in range has contributed, whatever precedes it in the
\* catalog.
C4_SkipIsPerLight ==
    evaluated =>
        \A i \in 1..Len(PointLights) :
            PointIncluded(PointLights[i], DetectionPoint) => IlluminanceTotal > 0

C6_DetectionPointTwoWay ==
    evaluated =>
        DetectionPoint =
            IF HitResult.bBlockingHit /\ HitResult.Distance < StandingRange
            THEN VAdd(HitLocation(PlayerPosition, HitResult), VScale(Lift, UpVector))
            ELSE VAdd(PlayerPosition, VScale(FallDrop, DownVector))

\* C7: if every cataloged light is invisible or has an intensity <= 0, then
\* IlluminanceTotal is 0 after any evaluation.
C7_AllOffIsZero ==
    (evaluated /\ AllLightsOff) => IlluminanceTotal = 0

\* C7 witness: an evaluation over a zero-intensity point light in range and a
\* zero-intensity spot light whose cone holds the detection point, unblocked.
C7_Witness ==
    /\ evaluated
    /\ PointLights = << PointDark >>
    /\ SpotLights = << SpotDark >>
    /\ ~PointOutOfRange(PointDark, DetectionPoint)
    /\ ~BeyondConeHeight(SpotDark, DetectionPoint)
    /\ ~OutsideCone(SpotDark, DetectionPoint)
    /\ ~shadowBlocked[1]
    /\ IlluminanceTotal = 0

\* C8 as stated: with a visible main directional light as the only light,
\* IlluminanceTotal after an evaluation is its intensity when the trace to
\* the player is unblocked and 0 when it is blocked.
C8_DirectionalAsStated ==
    ( /\ evaluated
      /\ PointLights = << >>
      /\ SpotLights = << >>
      /\ MainDirectionalLight.valid
      /\ MainDirectionalLight.visible )
    => IlluminanceTotal =
          IF visibilityBlocked THEN 0 ELSE MainDirectionalLight.Intensity

\* C8 amended: the evaluation runs the point-light and the spot-light
\* evaluators only; with a visible main directional light as the only light,
\* IlluminanceTotal after an evaluation is 0 whether the trace to the player
\* is blocked or not.
C8_DirectionalNotEvaluated ==
    ( /\ evaluated
      /\ PointLights = << >>
      /\ SpotLights = << >>
      /\ MainDirectionalLight.valid
      /\ MainDirectionalLight.visible )
    => IlluminanceTotal = 0

\* C8 witness: an evaluation has run in a scene whose only light is the
\* visible directional light, its trace unblocked.
C8_Witness ==
    /\ evaluated
    /\ worldActors = << >>
    /\ PointLights = << >>
    /\ SpotLights = << >>
    /\ MainDirectionalLight = Sun
    /\ ~visibilityBlocked
    /\ IlluminanceTotal = 0

\* C9: with a null Player a frame neither faults nor changes
\* IlluminanceTotal.
C9_MissingSubject ==
    [][ (phase = "Playing" /\ Player = "null") =>
            (phase' = "Playing" /\ IlluminanceTotal' = IlluminanceTotal) ]_vars

\* C10: with UpdateFrequency <= 0 no frame makes an evaluation.
C10_ConfigurationFault ==
    UpdateFrequency <= 0 => (evaluations = 0 /\ ~evaluated /\ phase # "Crashed")

(***************************************************************************)
(* Spot-light inclusion.                                                   *)
(***************************************************************************)
\* The angle between the forward vector of the light and S - L is at most the
\* outer half-cone angle: cos(angle) >= cos(OuterConeAngle), squared.
AngleWithinOuterCone(light, S) ==
    LET D == VSub(S, light.pos)
        dd == DotProduct(D, D)
        df == DotProduct(light.dir, D)
        c2 == CosSquared(light.OuterConeAngle)
    IN  df >= 0 /\ df * df * c2[2] >= c2[1] * dd

\* A visible spot light of positive intensity, away from the sampling point
\* (so that the angle exists) and with the sampling point within its reach.
SpotCandidate(light, S) ==
    /\ light.visible
    /\ light.Intensity > 0
    /\ S # light.pos
    /\ ~BeyondConeHeight(light, S)

NoOtherContributor(i) ==
    /\ \A j \in 1..Len(PointLights) : ~PointIncluded(PointLights[j], DetectionPoint)
    /\ \A j \in 1..Len(SpotLights) :
          j # i => ~SpotIncluded(SpotLights[j], DetectionPoint, shadowBlocked[j])

\* C11: after an evaluation, a visible spot light of positive intensity whose
\* sampling point is within its cone reach has written its contribution
\* whenever the angle between its forward vector and S - L is at most the
\* outer half-cone angle (the boundary included) and its occlusion ray is
\* free; and when no other light can contribute, IlluminanceTotal is positive
\* exactly in that case, so that a blocked ray or a larger angle leaves it 0.
C11_SpotInclusion ==
    evaluated =>
        \A i \in 1..Len(SpotLights) :
            SpotCandidate(SpotLights[i], DetectionPoint) =>
                LET lit == /\ AngleWithinOuterCone(SpotLights[i], DetectionPoint)
                           /\ ~shadowBlocked[i]
                IN  /\ lit => IlluminanceTotal = 1
                    /\ NoOtherContributor(i) => (IlluminanceTotal > 0 <=> lit)

\* One spot light, the sampling point exactly on its outer cone, a free ray.
C11_Witness ==
    /\ evaluated
    /\ PointLights = << >>
    /\ SpotLights = << SpotA >>
    /\ DetectionPoint = << 600, 0, 0 >>
    /\ SpotCandidate(SpotA, DetectionPoint)
    /\ ~shadowBlocked[1]
    /\ IlluminanceTotal = 1

(***************************************************************************)
(* IlluminanceTotal within one evaluation.                                 *)
(***************************************************************************)
\* C12: in every evaluation IlluminanceTotal is written to 0 once, first:
\* an evaluation that faults on the Player at line 75 has already cleared it,
\* and no later write of the evaluation stores 0; from the clearing on the
\* values written never decrease, the last of them is the IlluminanceTotal
\* the evaluation leaves, and that total is at least 0.
C12_ClearedThenNonDecreasing ==
    /\ phase = "Crashed" => IlluminanceTotal = 0
    /\ evaluated =>
          LET w == EvaluationWrites(DetectionPoint, shadowBlocked)
          IN  /\ w[1] = 0
              /\ \A k \in 2..Len(w) : w[k] # 0
              /\ \A k \in 1..(Len(w) - 1) : w[k] <= w[k + 1]
              /\ IlluminanceTotal = w[Len(w)]
              /\ IlluminanceTotal >= 0

\* An evaluation in which a point light and then a spot light wrote the total.
C12_Witness ==
    /\ evaluated
    /\ EvaluationWrites(DetectionPoint, shadowBlocked) = << 0, 1, 1 >>
    /\ IlluminanceTotal = 1

====
